---- MODULE Spec2Model ----
(***************************************************************************)
(* Model of the spark-graph HTTP function (src/main.py).                   *)
(*                                                                         *)
(* Python strings are modelled as sequences of one-character strings, so   *)
(* that upper(), lower(), split(), int(), startswith() and the base64 /    *)
(* UTF-8 decoders are computed, character by character, as the library    *)
(* computes them.  Close prices are integers (any fixed unit); the Y-axis  *)
(* bounds are kept exactly, scaled by 1000.                                *)
(***************************************************************************)
EXTENDS Integers, Sequences, FiniteSets, TLC

\* ------------------------------------------------------------------ bounds
\* longest base64 token after "Basic " in the authentication specification
MaxTok == 5
\* handler specification: longest results array / largest close price
MaxRows == 2
MaxClose == 1
\* renderer specification: longest series / largest small close price
MaxBars == 3
MaxPrice == 3
\* renderer specification: longest of the long series that exercise the ticks
MaxTickBars == 12

\* ----------------------------------------------------------- small helpers
Max(a, b) == IF a >= b THEN a ELSE b
Min(a, b) == IF a <= b THEN a ELSE b

RECURSIVE SeqsUpTo(_, _)
\* all sequences over S of length 0..n
SeqsUpTo(S, n) ==
  IF n = 0 THEN {<<>>}
  ELSE LET shorter == SeqsUpTo(S, n - 1)
       IN shorter \cup {Append(s, c) : s \in {t \in shorter : Len(t) = n - 1}, c \in S}

RECURSIVE SeqMin(_)
SeqMin(s) == IF Len(s) = 1 THEN s[1] ELSE Min(s[1], SeqMin(Tail(s)))
RECURSIVE SeqMax(_)
SeqMax(s) == IF Len(s) = 1 THEN s[1] ELSE Max(s[1], SeqMax(Tail(s)))

\* str.startswith
StartsWith(s, p) == Len(s) >= Len(p) /\ SubSeq(s, 1, Len(p)) = p

\* ------------------------------------------------------- characters / text
LowerLetters == <<"a","b","c","d","e","f","g","h","i","j","k","l","m",
                  "n","o","p","q","r","s","t","u","v","w","x","y","z">>
UpperLetters == <<"A","B","C","D","E","F","G","H","I","J","K","L","M",
                  "N","O","P","Q","R","S","T","U","V","W","X","Y","Z">>
Digits == <<"0","1","2","3","4","5","6","7","8","9">>

IndexIn(tbl, c) == CHOOSE i \in DOMAIN tbl : tbl[i] = c
InTable(tbl, c) == \E i \in DOMAIN tbl : tbl[i] = c

UpperChar(c) == IF InTable(LowerLetters, c) THEN UpperLetters[IndexIn(LowerLetters, c)] ELSE c
LowerChar(c) == IF InTable(UpperLetters, c) THEN LowerLetters[IndexIn(UpperLetters, c)] ELSE c
\* str.upper / str.lower
Upper(s) == [i \in DOMAIN s |-> UpperChar(s[i])]
Lower(s) == [i \in DOMAIN s |-> LowerChar(s[i])]

\* code point of a character of the configured credentials (letters, digits,
\* ":" and " "; any other character is taken as "!")
Ord(c) ==
  IF InTable(LowerLetters, c) THEN 96 + IndexIn(LowerLetters, c)
  ELSE IF InTable(UpperLetters, c) THEN 64 + IndexIn(UpperLetters, c)
  ELSE IF InTable(Digits, c) THEN 47 + IndexIn(Digits, c)
  ELSE IF c = ":" THEN 58
  ELSE IF c = " " THEN 32
  ELSE 33
\* str -> code points (ASCII text)
CodePoints(s) == [i \in DOMAIN s |-> Ord(s[i])]

\* characters outside ASCII that the model's inputs may carry
NonAscii == {"é"}

\* --------------------------------------------------------- base64.b64decode
B64Alphabet == UpperLetters \o LowerLetters \o Digits \o <<"+", "/">>
B64Val(c) == IndexIn(B64Alphabet, c) - 1

DecodeError == [ok |-> FALSE, bytes |-> <<>>]
DecodeOk(bytes) == [ok |-> TRUE, bytes |-> bytes]

RECURSIVE a2b_base64(_, _, _, _, _, _)
\* The non-strict decoder behind base64.b64decode(s): characters outside the
\* alphabet are skipped and leftover characters of an unfinished quad are an
\* error ("Incorrect padding").  The repository pins no interpreter, and
\* the decoders of CPython differ on a complete pad sequence that is followed
\* by more data: up to 3.12 (and 3.13 before its late bugfix releases) it
\* ends the input there and the rest is dropped (pad_ends_input); CPython
\* 3.13.13 skips such pad characters like any character outside the alphabet
\* and counts only the pads after the last data character as padding.
a2b_base64(s, quad_pos, leftchar, pads, out, pad_ends_input) ==
  IF s = <<>> THEN
    (IF quad_pos # 0 /\ (pad_ends_input \/ quad_pos = 1 \/ quad_pos + pads < 4)
       THEN DecodeError ELSE DecodeOk(out))
  ELSE LET c == Head(s) IN
    IF c = "=" THEN
      IF pad_ends_input /\ quad_pos >= 2 /\ quad_pos + pads + 1 >= 4 THEN DecodeOk(out)
      ELSE a2b_base64(Tail(s), quad_pos, leftchar,
                      IF quad_pos >= 2 THEN pads + 1 ELSE pads, out, pad_ends_input)
    ELSE IF ~InTable(B64Alphabet, c) THEN
      a2b_base64(Tail(s), quad_pos, leftchar, pads, out, pad_ends_input)
    ELSE LET v == B64Val(c) IN
      CASE quad_pos = 0 -> a2b_base64(Tail(s), 1, v, 0, out, pad_ends_input)
        [] quad_pos = 1 ->
             a2b_base64(Tail(s), 2, v % 16, 0, Append(out, leftchar * 4 + v \div 16),
                        pad_ends_input)
        [] quad_pos = 2 ->
             a2b_base64(Tail(s), 3, v % 4, 0, Append(out, leftchar * 16 + v \div 4),
                        pad_ends_input)
        [] OTHER ->
             a2b_base64(Tail(s), 0, 0, 0, Append(out, leftchar * 64 + v), pad_ends_input)

\* base64.b64decode(str): a str argument must be ASCII (else ValueError)
b64decode(s, pad_ends_input) ==
  IF \E i \in DOMAIN s : s[i] \in NonAscii THEN DecodeError
  ELSE a2b_base64(s, 0, 0, 0, <<>>, pad_ends_input)

\* ------------------------------------------------------ bytes.decode('utf-8')
IsCont(b) == b >= 128 /\ b <= 191
Utf8Error == [ok |-> FALSE, cps |-> <<>>]

\* length of the well-formed UTF-8 sequence starting b, 0 when there is none
Utf8SeqLen(b) ==
  LET n == Len(b)
      b1 == b[1]
      c2 == n >= 2 /\ IsCont(b[2])
      c3 == n >= 3 /\ IsCont(b[3])
      c4 == n >= 4 /\ IsCont(b[4])
  IN IF b1 < 128 THEN 1
     ELSE IF b1 >= 194 /\ b1 <= 223 THEN (IF c2 THEN 2 ELSE 0)
     ELSE IF b1 = 224 THEN (IF c2 /\ b[2] >= 160 /\ c3 THEN 3 ELSE 0)
     ELSE IF b1 = 237 THEN (IF c2 /\ b[2] <= 159 /\ c3 THEN 3 ELSE 0)
     ELSE IF b1 >= 225 /\ b1 <= 239 THEN (IF c2 /\ c3 THEN 3 ELSE 0)
     ELSE IF b1 = 240 THEN (IF c2 /\ b[2] >= 144 /\ c3 /\ c4 THEN 4 ELSE 0)
     ELSE IF b1 = 244 THEN (IF c2 /\ b[2] <= 143 /\ c3 /\ c4 THEN 4 ELSE 0)
     ELSE IF b1 >= 241 /\ b1 <= 243 THEN (IF c2 /\ c3 /\ c4 THEN 4 ELSE 0)
     ELSE 0

Utf8CodePoint(b, k) ==
  CASE k = 1 -> b[1]
    [] k = 2 -> (b[1] % 32) * 64 + (b[2] % 64)
    [] k = 3 -> (b[1] % 16) * 4096 + (b[2] % 64) * 64 + (b[3] % 64)
    [] OTHER -> (b[1] % 8) * 262144 + (b[2] % 64) * 4096 + (b[3] % 64) * 64 + (b[4] % 64)

RECURSIVE utf8_decode(_, _)
\* bytes -> code points, or the UnicodeDecodeError
utf8_decode(b, out) ==
  IF b = <<>> THEN [ok |-> TRUE, cps |-> out]
  ELSE LET k == Utf8SeqLen(b) IN
    IF k = 0 THEN Utf8Error
    ELSE utf8_decode(SubSeq(b, k + 1, Len(b)), Append(out, Utf8CodePoint(b, k)))

\* ------------------------------------------------------------ configuration
\* os.environ.get(NAME): unset (None) or a string
Unset == [set |-> FALSE, v |-> <<>>]
EnvStr(s) == [set |-> TRUE, v |-> s]
\* Python truthiness of an environment value: None and '' are falsy
Truthy(e) == e.set /\ e.v # <<>>

\* ---------------------------------------------------------- verify_basic_auth
BasicPrefix == <<"B", "a", "s", "i", "c", " ">>
NoHeader == [present |-> FALSE, v |-> <<>>]
Header(s) == [present |-> TRUE, v |-> s]

\* credentials.split(':', 1) unpacked into two names: position of the first ':'
FirstColon(cps) ==
  IF \E i \in DOMAIN cps : cps[i] = 58
  THEN CHOOSE i \in DOMAIN cps : cps[i] = 58 /\ \A j \in 1..(i - 1) : cps[j] # 58
  ELSE 0

\* e: the configuration read from the environment, and the base64 decoder of
\* the interpreter the process runs under
verify_basic_auth(e, h) ==
  IF ~h.present \/ h.v = <<>> \/ ~StartsWith(h.v, BasicPrefix) THEN FALSE
  ELSE LET dec == b64decode(SubSeq(h.v, 7, Len(h.v)), e.pad_ends_input)
           txt == IF dec.ok THEN utf8_decode(dec.bytes, <<>>) ELSE Utf8Error
           k == IF txt.ok THEN FirstColon(txt.cps) ELSE 0
       IN k # 0
          /\ SubSeq(txt.cps, 1, k - 1) = CodePoints(e.username)
          /\ e.password.set
          /\ SubSeq(txt.cps, k + 1, Len(txt.cps)) = CodePoints(e.password.v)

\* -------------------------------------------------------- get_duration_params
KwHour == <<"h", "o", "u", "r">>
KwDay == <<"d", "a", "y">>
KwWeek == <<"w", "e", "e", "k">>
KwMonth == <<"m", "o", "n", "t", "h">>

\* duration_map: the span of each keyword, in hours
duration_map(d) ==
  CASE d = KwHour -> 1
    [] d = KwDay -> 24
    [] d = KwWeek -> 7 * 24
    [] d = KwMonth -> 30 * 24
    [] OTHER -> 0

InDurationMap(d) == d \in {KwHour, KwDay, KwWeek, KwMonth}

bar_timespan(d) ==
  IF d = KwHour THEN "minute"
  ELSE IF d = KwDay THEN "minute"
  ELSE IF d = KwWeek THEN "hour"
  ELSE "day"

bar_multiplier(d) ==
  IF d = KwHour THEN 1
  ELSE IF d = KwDay THEN 5
  ELSE IF d = KwWeek THEN 1
  ELSE 1

\* get_duration_params with the week's bars taken per day instead of per hour
get_duration_params_week_daily(duration, now) ==
  IF ~InDurationMap(duration)
  THEN [ok |-> FALSE, start_date |-> 0, end_date |-> 0, timespan |-> "", multiplier |-> 0]
  ELSE [ok |-> TRUE, start_date |-> now - duration_map(duration), end_date |-> now,
        timespan |-> IF duration = KwWeek THEN "day" ELSE bar_timespan(duration),
        multiplier |-> bar_multiplier(duration)]

\* get_duration_params(duration) called at time now (hours): the ValueError,
\* or (start_date, end_date, timespan, multiplier)
get_duration_params(duration, now) ==
  IF ~InDurationMap(duration)
  THEN [ok |-> FALSE, start_date |-> 0, end_date |-> 0, timespan |-> "", multiplier |-> 0]
  ELSE [ok |-> TRUE, start_date |-> now - duration_map(duration), end_date |-> now,
        timespan |-> bar_timespan(duration), multiplier |-> bar_multiplier(duration)]

\* ------------------------------------------------------------ int(), split()
IsSpace(c) == c = " "
IsDigit(c) == InTable(Digits, c)

RECURSIVE LStrip(_)
LStrip(s) == IF s # <<>> /\ IsSpace(Head(s)) THEN LStrip(Tail(s)) ELSE s
RECURSIVE RStrip(_)
RStrip(s) == IF s # <<>> /\ IsSpace(s[Len(s)]) THEN RStrip(SubSeq(s, 1, Len(s) - 1)) ELSE s

RECURSIVE DigitsValue(_, _)
\* value of a digit string in which single underscores may separate digits
DigitsValue(s, acc) ==
  IF s = <<>> THEN acc
  ELSE IF Head(s) = "_" THEN DigitsValue(Tail(s), acc)
  ELSE DigitsValue(Tail(s), 10 * acc + (IndexIn(Digits, Head(s)) - 1))

\* digits, with single underscores only between digits
WellFormedDigits(s) ==
  /\ s # <<>>
  /\ \A i \in DOMAIN s : IsDigit(s[i]) \/ s[i] = "_"
  /\ IsDigit(s[1]) /\ IsDigit(s[Len(s)])
  /\ \A i \in 1..(Len(s) - 1) : ~(s[i] = "_" /\ s[i + 1] = "_")

IntError == [ok |-> FALSE, v |-> 0]
\* int(str): surrounding whitespace, an optional sign, decimal digits
ParseInt(s) ==
  LET t == RStrip(LStrip(s))
      signed == t # <<>> /\ Head(t) \in {"+", "-"}
      body == IF signed THEN Tail(t) ELSE t
  IN IF ~WellFormedDigits(body) THEN IntError
     ELSE [ok |-> TRUE,
           v |-> IF signed /\ Head(t) = "-" THEN 0 - DigitsValue(body, 0)
                 ELSE DigitsValue(body, 0)]

RECURSIVE Split(_, _, _)
\* str.split(sep): cur is the part being collected
Split(s, sep, cur) ==
  IF s = <<>> THEN <<cur>>
  ELSE IF Head(s) = sep THEN <<cur>> \o Split(Tail(s), sep, <<>>)
  ELSE Split(Tail(s), sep, Append(cur, Head(s)))

\* width, height = map(int, size_param.split('x')): every failure is a ValueError
parse_size(size_param) ==
  LET parts == Split(size_param, "x", <<>>)
  IN IF Len(parts) # 2 THEN [ok |-> FALSE, width |-> 0, height |-> 0]
     ELSE LET w == ParseInt(parts[1])
              h == ParseInt(parts[2])
          IN IF w.ok /\ h.ok THEN [ok |-> TRUE, width |-> w.v, height |-> h.v]
             ELSE [ok |-> FALSE, width |-> 0, height |-> 0]

\* the size limits with the bounds themselves excluded
size_in_limits_exclusive(width, height) ==
  ~(width <= 100 \/ height <= 100 \/ width >= 2000 \/ height >= 2000)

\* the size limits of the handler
size_in_limits(width, height) ==
  ~(width < 100 \/ height < 100 \/ width > 2000 \/ height > 2000)

\* -------------------------------------------------------- fetch_company_name
\* A JSON "name" member: absent, null or a string
NameAbsent == [t |-> "absent", v |-> <<>>]
NameNull == [t |-> "null", v |-> <<>>]
NameStr(s) == [t |-> "str", v |-> s]

\* what the reference endpoint can answer: the call raises (network error,
\* timeout), or an HTTP status with a body that is not JSON, a JSON array, or a
\* JSON object with optional "status" and "results" members; "results" is absent,
\* null, an object with n members (one of them possibly "name"), an array or a
\* string of length n
RefBody(t, status, rt, n, name) ==
  [t |-> t, status |-> status, results |-> [t |-> rt, n |-> n, name |-> name]]
RefException == [kind |-> "exception", status |-> 0,
                 body |-> RefBody("notjson", "absent", "absent", 0, NameAbsent)]
RefHttp(status, body) == [kind |-> "http", status |-> status, body |-> body]

\* Python truthiness of data.get('results')
ResultsTruthy(r) == r.t \in {"obj", "list", "str"} /\ r.n > 0

\* fetch_company_name(ticker) given the reference endpoint's answer: a str, or
\* None (t = "null") when the payload's name is null
fetch_company_name(ticker, out) ==
  IF out.kind = "exception" THEN NameStr(ticker)
  ELSE IF out.status # 200 THEN NameStr(ticker)
  ELSE IF out.body.t # "obj" THEN NameStr(ticker)
  ELSE IF out.body.status = "OK" /\ ResultsTruthy(out.body.results) THEN
    IF out.body.results.t # "obj" THEN NameStr(ticker)
    ELSE IF out.body.results.name.t = "absent" THEN NameStr(ticker)
    ELSE out.body.results.name
  ELSE NameStr(ticker)

\* ---------------------------------------------------------- fetch_stock_data
Bar(c, t) == [c |-> c, t |-> t]

AggBody(t, status, hasError, hasCount, count, rt, bars) ==
  [t |-> t, status |-> status, error |-> hasError,
   resultsCount |-> [present |-> hasCount, v |-> count],
   results |-> [t |-> rt, bars |-> bars]]
AggNoBody == AggBody("notjson", "absent", FALSE, FALSE, 0, "absent", <<>>)
AggException == [kind |-> "exception", status |-> 0, body |-> AggNoBody]
AggHttp(status, body) == [kind |-> "http", status |-> status, body |-> body]

\* the outcome of a call: a return value or the exception raised
Raised(exc, status, msg, arg) ==
  [kind |-> exc, status |-> status, msg |-> msg, arg |-> arg, bars |-> <<>>]
Returned(bars) ==
  [kind |-> "ok", status |-> 0, msg |-> "", arg |-> <<>>, bars |-> bars]

\* Response.raise_for_status(): raises for 4xx and 5xx only
raise_for_status_raises(status) == status >= 400 /\ status < 600

\* the free-tier clamp: start_date no earlier than now - 730 days (the clock is
\* read again here; the model reads the same hour as get_duration_params)
clamp_start(start_date, now) ==
  IF start_date < now - 730 * 24 THEN now - 730 * 24 ELSE start_date

\* strftime('%Y-%m-%d') of a time in hours: the day number
strftime_day(t) == t \div 24

\* the URL of the aggregates request
aggs_url(ticker, w, now) ==
  [ticker |-> ticker, multiplier |-> w.multiplier, timespan |-> w.timespan,
   from |-> strftime_day(clamp_start(w.start_date, now)), to |-> strftime_day(w.end_date)]

\* data.get('results') falsy: absent, null or an empty array
ResultsFalsy(r) == r.t \in {"absent", "null"} \/ r.bars = <<>>

\* data.get('status') == 'OK' and data.get('resultsCount', 0) == 0
classify_no_results(body) ==
  body.status = "OK" /\ (~body.resultsCount.present \/ body.resultsCount.v = 0)

\* fetch_stock_data(ticker, ...) given the aggregates endpoint's answer
fetch_stock_data(ticker, out) ==
  IF out.kind = "exception" THEN Raised("ConnectionError", 0, "connection error", <<>>)
  ELSE IF out.status # 200 /\ raise_for_status_raises(out.status)
    THEN Raised("HTTPError", out.status, "http error", <<>>)
  ELSE IF out.body.t = "notjson" THEN Raised("ValueError", 0, "JSONDecodeError", <<>>)
  ELSE IF out.body.t = "list"
    THEN Raised("AttributeError", 0, "'list' object has no attribute 'get'", <<>>)
  ELSE IF out.body.results.t = "null"
    THEN Raised("TypeError", 0, "object of type 'NoneType' has no len()", <<>>)
  ELSE IF out.body.status = "ERROR"
    THEN Raised("ValueError", 0, "Polygon API error: ",
                IF out.body.error THEN <<"m", "s", "g">>
                ELSE <<"U","n","k","n","o","w","n"," ","e","r","r","o","r">>)
  ELSE IF classify_no_results(out.body)
    THEN Raised("ValueError", 0, "No data available: no recent trading activity", ticker)
  ELSE IF ResultsFalsy(out.body.results)
    THEN Raised("ValueError", 0, "No data available: Response", ticker)
  ELSE Returned(out.body.results.bars)

\* -------------------------------------------------- create_spark_graph_image
NoImage ==
  [width |-> 0, height |-> 0, y_min |-> 0, y_max |-> 0, fill_base |-> 0,
   title |-> <<>>, current_price |-> 0, price_change |-> 0,
   pct_num |-> 0, pct_den |-> 1, change_color |-> "", ticks |-> <<>>]

Closes(prices) == [i \in DOMAIN prices |-> prices[i].c]
Timestamps(prices) == [i \in DOMAIN prices |-> prices[i].t]

\* np.linspace(start, stop, num, endpoint=False, dtype=int): the step is
\* delta / num and the last sample is not set to stop
linspace_exclusive(start, stop, num) ==
  LET delta == stop - start
  IN [i \in 1..num |-> ((i - 1) * delta + start * num) \div num]

\* np.linspace(start, stop, num, dtype=int) for integers start <= stop, as
\* numpy computes it: div = num - 1, step = delta / div, the samples
\* arange(num) * step + start (arange(num) * delta + start when div = 0),
\* the last sample set to stop when num > 1, then floor and the cast to int.
\* A sample is kept as the fraction n / d.  numpy holds it as a double: the
\* only samples that depend on the rounding of a double are whole numbers
\* whose step is not whole, which needs div to divide i and so falls on the
\* last sample alone (i = div), the one that is overwritten with stop; every
\* other sample is either exact or at least 1/div away from a whole number,
\* so its floor is the floor of the fraction.
linspace(start, stop, num) ==
  LET div == num - 1
      delta == stop - start
      y == [i \in 1..num |->
              IF div > 0 THEN [n |-> (i - 1) * delta + start * div, d |-> div]
              ELSE [n |-> (i - 1) * delta + start, d |-> 1]]
      last == [i \in 1..num |->
                 IF num > 1 /\ i = num THEN [n |-> stop, d |-> 1] ELSE y[i]]
  IN [i \in 1..num |-> last[i].n \div last[i].d]

\* num_labels = min(6, len(timestamps))
num_labels(timestamps) == Min(6, Len(timestamps))
\* indices = np.linspace(0, len(timestamps)-1, num_labels, dtype=int)
indices(timestamps) == linspace(0, Len(timestamps) - 1, num_labels(timestamps))

\* the padding without its floor of 0.5% of the lowest price
y_padding_range_only(values) ==
  LET min_price == SeqMin(values)
      price_range == SeqMax(values) - min_price
  IN IF price_range > 0 THEN 50 * price_range ELSE 10 * min_price

\* padding, times 1000: max(price_range * 0.05, min_price * 0.005) when the
\* range is positive, min_price * 0.01 otherwise
y_padding(values) ==
  LET min_price == SeqMin(values)
      price_range == SeqMax(values) - min_price
  IN IF price_range > 0 THEN Max(50 * price_range, 5 * min_price)
     ELSE 10 * min_price

\* (y_min, y_max), times 1000
y_bounds(values) ==
  [y_min |-> 1000 * SeqMin(values) - y_padding(values),
   y_max |-> 1000 * SeqMax(values) + y_padding(values)]

\* str(company_name) inside the f-string of the title
StrOfName(name) == IF name.t = "null" THEN <<"N", "o", "n", "e">> ELSE name.v
chart_title(ticker, company_name) == ticker \o <<" ", "-", " ">> \o StrOfName(company_name)

\* create_spark_graph_image(prices, ticker, company_name, size): the chart's
\* geometry and texts, or the exception raised on the way.  The axis limits,
\* the fill, the ticks and the title are set before the price change is
\* divided by the first close, so they are part of the figure also when that
\* division raises.
create_spark_graph_image(prices, ticker, company_name, size) ==
  LET values == Closes(prices) IN
  IF values = <<>>
    THEN [kind |-> "ValueError", msg |-> "No price data available", image |-> NoImage]
  ELSE
    LET price_change == values[Len(values)] - values[1]
        drawn == [NoImage EXCEPT !.width = size.width, !.height = size.height,
                                 !.y_min = y_bounds(values).y_min,
                                 !.y_max = y_bounds(values).y_max,
                                 !.fill_base = y_bounds(values).y_min,
                                 !.ticks = indices(Timestamps(prices)),
                                 !.title = chart_title(ticker, company_name),
                                 !.current_price = values[Len(values)],
                                 !.price_change = price_change]
    IN IF values[1] = 0
         THEN [kind |-> "ZeroDivisionError", msg |-> "division by zero", image |-> drawn]
       ELSE [kind |-> "ok", msg |-> "",
             image |-> [drawn EXCEPT !.pct_num = price_change * 100,
                                     !.pct_den = values[1],
                                     !.change_color = IF price_change >= 0 THEN "#2ca02c"
                                                      ELSE "#d62728"]]

\* -------------------------------------------------------- generate_spark_graph
\* a query parameter: absent or a string
NoParam == [present |-> FALSE, v |-> <<>>]
Param(s) == [present |-> TRUE, v |-> s]
\* request.args.get(name, default)
ArgGet(p, default) == IF p.present THEN p.v ELSE default

DefaultSize == <<"4", "8", "0", "x", "4", "8", "0">>

JsonResponse(status, error, arg, headers) ==
  [status |-> status, ctype |-> "application/json", error |-> error, arg |-> arg,
   headers |-> headers, image |-> NoImage]
PngResponse(image) ==
  [status |-> 200, ctype |-> "image/png", error |-> "", arg |-> <<>>,
   headers |-> {"Cache-Control: public, max-age=300"}, image |-> image]
NoResponse == JsonResponse(0, "", <<>>, {})

NoWindow == get_duration_params(<<>>, 0)
NoSize == [ok |-> FALSE, width |-> 0, height |-> 0]

Early(resp) ==
  [done |-> TRUE, resp |-> resp, ticker |-> <<>>, size |-> NoSize, window |-> NoWindow]

\* the two configuration checks, in the handler's order: the name of the first
\* missing setting's message, "" when both are set
config_checks(e) ==
  IF ~Truthy(e.apiKey) THEN "POLYGON_API_KEY not configured"
  ELSE IF ~Truthy(e.password) THEN "BASIC_AUTH_PASSWORD not configured"
  ELSE ""

\* the handler's checks with the ticker validated before the configuration
handler_prelude_ticker_first(e, r, now) ==
  IF ~verify_basic_auth(e, r.auth)
    THEN Early(JsonResponse(401, "Unauthorized", <<>>,
                            {"WWW-Authenticate: Basic realm=\"Login Required\""}))
  ELSE IF Upper(ArgGet(r.ticker, <<>>)) = <<>>
    THEN Early(JsonResponse(400, "Missing required parameter: ticker", <<>>, {}))
  ELSE IF config_checks(e) # ""
    THEN Early(JsonResponse(500, config_checks(e), <<>>, {}))
  ELSE
    LET size == parse_size(ArgGet(r.size, DefaultSize))
        duration == Lower(ArgGet(r.duration, KwDay))
        window == get_duration_params(duration, now)
    IN IF ~size.ok
         THEN Early(JsonResponse(400,
                "Invalid size format. Use WIDTHxHEIGHT (e.g., 480x480)", <<>>, {}))
       ELSE IF ~size_in_limits(size.width, size.height)
         THEN Early(JsonResponse(400, "Size must be between 100x100 and 2000x2000", <<>>, {}))
       ELSE IF ~window.ok
         THEN Early(JsonResponse(400, "Invalid duration: ", duration, {}))
       ELSE [done |-> FALSE, resp |-> NoResponse, ticker |-> Upper(ArgGet(r.ticker, <<>>)),
             size |-> size, window |-> window]

\* The handler up to its first upstream call: authentication, configuration,
\* ticker, size, duration, in this order.  done = TRUE carries the response of
\* the first check that failed.
handler_prelude(e, r, now) ==
  IF ~verify_basic_auth(e, r.auth)
    THEN Early(JsonResponse(401, "Unauthorized", <<>>,
                            {"WWW-Authenticate: Basic realm=\"Login Required\""}))
  ELSE IF config_checks(e) # ""
    THEN Early(JsonResponse(500, config_checks(e), <<>>, {}))
  ELSE
    LET ticker == Upper(ArgGet(r.ticker, <<>>))
        duration == Lower(ArgGet(r.duration, KwDay))
        size == parse_size(ArgGet(r.size, DefaultSize))
        window == get_duration_params(duration, now)
    IN IF ticker = <<>>
         THEN Early(JsonResponse(400, "Missing required parameter: ticker", <<>>, {}))
       ELSE IF ~size.ok
         THEN Early(JsonResponse(400,
                "Invalid size format. Use WIDTHxHEIGHT (e.g., 480x480)", <<>>, {}))
       ELSE IF ~size_in_limits(size.width, size.height)
         THEN Early(JsonResponse(400, "Size must be between 100x100 and 2000x2000", <<>>, {}))
       ELSE IF ~window.ok
         THEN Early(JsonResponse(400, "Invalid duration: ", duration, {}))
       ELSE [done |-> FALSE, resp |-> NoResponse, ticker |-> ticker, size |-> size,
             window |-> window]

\* the handler's except clauses, applied to what fetch_stock_data raised
map_exception(x) ==
  IF x.kind = "ValueError" THEN JsonResponse(400, x.msg, x.arg, {})
  ELSE IF x.kind = "HTTPError" THEN
    IF x.status = 403 THEN JsonResponse(403, "Invalid Polygon.io API key", <<>>, {})
    ELSE IF x.status = 404 THEN JsonResponse(404, "Ticker not found", <<>>, {})
    ELSE JsonResponse(500, "Error fetching stock data", <<>>, {})
  ELSE JsonResponse(500, "Internal server error: ", <<x.msg>>, {})

\* The handler after the aggregates call: render, or map the exception.
handler_finish(tk, name, sz, data) ==
  IF data.kind # "ok" THEN map_exception(data)
  ELSE LET img == create_spark_graph_image(data.bars, tk, name, sz) IN
    IF img.kind = "ok" THEN PngResponse(img.image)
    ELSE map_exception(Raised(img.kind, 0, img.msg, <<>>))

\* ------------------------------------------------------------- state machine
VARIABLES
  env,           \* POLYGON_API_KEY, BASIC_AUTH_USERNAME, BASIC_AUTH_PASSWORD
  pc,            \* where the handler (or the renderer under test) stands
  req,           \* the request: Authorization header and query parameters
  now,           \* datetime.now() of the request, in hours
  ticker,        \* the handler's locals, once the checks have passed
  size,
  window,
  company_name,
  refOut,        \* the reference endpoint's answer
  aggsOut,       \* the aggregates endpoint's answer
  aggsReq,       \* the URL of the aggregates request
  refCalls,      \* requests.get calls made for this request, per endpoint
  aggsCalls,
  stock_data,    \* what fetch_stock_data returned or raised
  chart,         \* what the renderer produced
  resp           \* the response returned

vars == <<env, pc, req, now, ticker, size, window, company_name, refOut, aggsOut,
          aggsReq, refCalls, aggsCalls, stock_data, chart, resp>>

NoRequest == [auth |-> NoHeader, ticker |-> NoParam, duration |-> NoParam, size |-> NoParam]
NoUrl == [ticker |-> <<>>, multiplier |-> 0, timespan |-> "", from |-> 0, to |-> 0]
NoChart == [kind |-> "none", msg |-> "", image |-> NoImage]
NoData == Raised("none", 0, "", <<>>)

Env(key, user, pw, pad_ends) ==
  [apiKey |-> key, username |-> user, password |-> pw, pad_ends_input |-> pad_ends]

Idle ==
  /\ pc = "idle"
  /\ req = NoRequest /\ now = 0
  /\ ticker = <<>> /\ size = NoSize /\ window = NoWindow
  /\ company_name = NameAbsent
  /\ refOut = RefException /\ aggsOut = AggException /\ aggsReq = NoUrl
  /\ refCalls = 0 /\ aggsCalls = 0
  /\ stock_data = NoData /\ chart = NoChart
  /\ resp = NoResponse

\* A request arrives; the handler runs up to its first upstream call (the
\* reference lookup), or returns the response of the check that failed.
Receive(headers, tickers, durations, sizes, times) ==
  /\ pc = "idle"
  /\ \E h \in headers, tk \in tickers, d \in durations, sz \in sizes, t \in times :
       LET r == [auth |-> h, ticker |-> tk, duration |-> d, size |-> sz]
           pre == handler_prelude(env, r, t)
       IN /\ req' = r
          /\ now' = t
          /\ IF pre.done
               THEN /\ resp' = pre.resp
                    /\ pc' = "done"
                    /\ refCalls' = 0
                    /\ UNCHANGED <<ticker, size, window>>
               ELSE /\ resp' = NoResponse
                    /\ pc' = "ref"
                    /\ refCalls' = refCalls + 1
                    /\ ticker' = pre.ticker
                    /\ size' = pre.size
                    /\ window' = pre.window
  /\ UNCHANGED <<env, company_name, refOut, aggsOut, aggsReq, aggsCalls, stock_data, chart>>

\* The reference endpoint answers (or the call raises); fetch_company_name
\* returns and fetch_stock_data issues the aggregates request.
RefReturns(outs) ==
  /\ pc = "ref"
  /\ \E out \in outs :
       /\ refOut' = out
       /\ company_name' = fetch_company_name(ticker, out)
  /\ aggsReq' = aggs_url(ticker, window, now)
  /\ aggsCalls' = aggsCalls + 1
  /\ pc' = "aggs"
  /\ UNCHANGED <<env, req, now, ticker, size, window, aggsOut, refCalls, stock_data,
                 chart, resp>>

\* The aggregates endpoint answers (or the call raises); the handler renders
\* the chart or maps the exception, and returns.
AggsReturns(outs) ==
  /\ pc = "aggs"
  /\ \E out \in outs :
       LET data == fetch_stock_data(ticker, out) IN
       /\ aggsOut' = out
       /\ stock_data' = data
       /\ chart' = IF data.kind = "ok"
                     THEN create_spark_graph_image(data.bars, ticker, company_name, size)
                     ELSE NoChart
       /\ resp' = handler_finish(ticker, company_name, size, data)
  /\ pc' = "done"
  /\ UNCHANGED <<env, req, now, ticker, size, window, company_name, refOut, aggsReq,
                 refCalls, aggsCalls>>

\* The response is sent; nothing of the request is kept for the next one.
NextRequest ==
  /\ pc = "done"
  /\ pc' = "idle"
  /\ req' = NoRequest /\ now' = 0
  /\ ticker' = <<>> /\ size' = NoSize /\ window' = NoWindow
  /\ company_name' = NameAbsent
  /\ refOut' = RefException /\ aggsOut' = AggException /\ aggsReq' = NoUrl
  /\ refCalls' = 0 /\ aggsCalls' = 0
  /\ stock_data' = NoData /\ chart' = NoChart
  /\ resp' = NoResponse
  /\ UNCHANGED env

\* ------------------------------------------------------------------- inputs
\* Authorization headers of the handler specifications: none, the credentials
\* a:b, a: (empty password), a wrong password, a token the two decoders
\* read differently (a: or a:b), another scheme
HeaderAB == Header(BasicPrefix \o <<"Y", "T", "p", "i">>)
HeaderAEmpty == Header(BasicPrefix \o <<"Y", "T", "o", "=">>)
FewHeaders ==
  {NoHeader, HeaderAB, HeaderAEmpty,
   Header(BasicPrefix \o <<"Y", "T", "p", "p">>),
   Header(BasicPrefix \o <<"Y", "T", "p", "=", "i">>),
   Header(<<"B", "e", "a", "r", "e", "r", " ", "Y", "T", "p", "i">>)}

\* Authorization headers of the authentication specification: none, and every
\* token of up to MaxTok characters after "Basic " or "basic "
TokChars == {"Y", "T", "p", "i", "=", "!"}
Tokens == SeqsUpTo(TokChars, MaxTok)
AllHeaders ==
  {NoHeader, Header(BasicPrefix \o <<"Y", "T", "p", "i", "é">>)}
  \cup {Header(p \o tok) : p \in {BasicPrefix, Lower(BasicPrefix)}, tok \in Tokens}

Tickers == {NoParam, Param(<<>>), Param(<<"a", "B">>)}
Durations ==
  {NoParam, Param(KwHour), Param(Upper(KwDay)), Param(KwWeek), Param(KwMonth),
   Param(<<"M", "o", "n", "t", "h">>),
   Param(<<"y", "e", "a", "r">>), Param(<<"h", "o", "u", "r", "s">>), Param(<<>>)}

RECURSIVE Str(_)
\* str(n) of a natural number
Str(n) == IF n < 10 THEN <<Digits[n + 1]>> ELSE Str(n \div 10) \o <<Digits[(n % 10) + 1]>>

\* sizes WxH around the limits, other spellings int() accepts, and sizes that
\* are not two integers
LimitSizes == {Param(Str(w) \o <<"x">> \o Str(h)) : w, h \in {99, 100, 2000, 2001}}
OtherSizes ==
  {NoParam, Param(<<" ", "4", "8", "0", " ", "x", "+", "4", "8", "0">>), Param(<<"1", "_", "0", "_", "0", "x", "1", "0", "0">>),
   Param(<<"5", "0", "x", "4", "8", "0">>),
   Param(<<"3", "0", "0", "0", "x", "4", "8", "0">>),
   Param(<<"-", "5", "x", "1", "0", "0">>),
   Param(<<"4", "8", "0">>),
   Param(<<"4", "8", "0", "x", "4", "8", "0", "x", "4", "8", "0">>),
   Param(<<"x">>),
   Param(<<"4", "8", "0", "X", "4", "8", "0">>),
   Param(<<"4", ".", "5", "x", "1", "0", "0">>),
   Param(<<"a", "b", "c">>),
   Param(<<"1", "_", "_", "0", "x", "1", "0", "0">>),
   Param(<<>>)}
Sizes == LimitSizes \cup OtherSizes
\* request times, in hours: inside a day, and at midnight
Times == {20000, 20016}

\* answers of the reference endpoint
RefBodies ==
  {RefBody("notjson", "absent", "absent", 0, NameAbsent),
   RefBody("list", "absent", "absent", 0, NameAbsent),
   RefBody("obj", "absent", "obj", 1, NameStr(<<"N">>)),
   RefBody("obj", "ERROR", "obj", 1, NameStr(<<"N">>)),
   RefBody("obj", "OK", "absent", 0, NameAbsent),
   RefBody("obj", "OK", "null", 0, NameAbsent),
   RefBody("obj", "OK", "obj", 0, NameAbsent),
   RefBody("obj", "OK", "list", 1, NameAbsent),
   RefBody("obj", "OK", "str", 1, NameAbsent),
   RefBody("obj", "OK", "obj", 1, NameAbsent),
   RefBody("obj", "OK", "obj", 1, NameNull),
   RefBody("obj", "OK", "obj", 1, NameStr(<<>>)),
   RefBody("obj", "OK", "obj", 1, NameStr(<<"N">>))}
RefOutcomes ==
  {RefException}
  \cup {RefHttp(200, b) : b \in RefBodies}
  \cup {RefHttp(st, RefBody("obj", "OK", "obj", 1, NameStr(<<"N">>))) : st \in {404, 500}}
\* one answer of each kind
FewRefOutcomes ==
  {RefException,
   RefHttp(404, RefBody("notjson", "absent", "absent", 0, NameAbsent)),
   RefHttp(200, RefBody("obj", "OK", "obj", 1, NameStr(<<"N">>)))}

\* ascending bars: closes over 0..maxc, timestamps one minute apart
BarsOf(closes) == [i \in DOMAIN closes |-> Bar(closes[i], 60000 * i)]
BarLists(maxlen, maxc) == {BarsOf(cl) : cl \in SeqsUpTo(0..maxc, maxlen)}

\* answers of the aggregates endpoint: the call raises, an error status, or a
\* 200 (or 300) with a body that is not JSON, a JSON array, or an object whose
\* "status" is absent, OK, ERROR or DELAYED, whose "resultsCount" is absent, 0,
\* the length of "results" or one more, and whose "results" is absent, null or
\* an array of up to MaxRows bars
AggObjects ==
  {AggBody("obj", st, er, cnt # 0, IF cnt <= 1 THEN 0 ELSE Len(b) + cnt - 2,
           rt, IF rt = "list" THEN b ELSE <<>>) :
     st \in {"absent", "OK", "ERROR", "DELAYED"}, er \in BOOLEAN, cnt \in 0..3,
     rt \in {"absent", "null", "list"}, b \in BarLists(MaxRows, MaxClose)}
AggBodies ==
  {AggNoBody, AggBody("list", "absent", FALSE, FALSE, 0, "absent", <<>>)}
  \cup {b \in AggObjects : b.error => b.status = "ERROR"}
AggOutcomes ==
  {AggException}
  \cup {AggHttp(st, b) : st \in {200, 300}, b \in AggBodies}
  \cup {AggHttp(st, AggNoBody) : st \in {403, 404, 429, 500}}
\* one answer of each kind, and every OK payload with consistent results
FewAggOutcomes ==
  {AggException, AggHttp(300, AggNoBody), AggHttp(200, AggNoBody),
   AggHttp(200, AggBody("list", "absent", FALSE, FALSE, 0, "absent", <<>>)),
   AggHttp(200, AggBody("obj", "ERROR", TRUE, FALSE, 0, "absent", <<>>)),
   AggHttp(200, AggBody("obj", "DELAYED", FALSE, TRUE, 1, "absent", <<>>))}
  \cup {AggHttp(st, AggNoBody) : st \in {403, 404, 429, 500}}
  \cup {AggHttp(200, AggBody("obj", "OK", FALSE, TRUE, Len(b), "list", b)) :
          b \in BarLists(MaxRows, MaxClose)}

\* ------------------------------------------------------------ specifications
\* the configurations a process can start with (username set to "a"), under
\* an interpreter with either base64 decoder
Envs ==
  {Env(k, <<"a">>, p, d) : k \in {Unset, EnvStr(<<>>), EnvStr(<<"k">>)},
                           p \in {Unset, EnvStr(<<>>), EnvStr(<<"b">>)},
                           d \in BOOLEAN}
Init == env \in Envs /\ Idle

\* the handler, over every shape of request
Next ==
  \/ Receive(FewHeaders, Tickers, Durations, Sizes, Times)
  \/ RefReturns(FewRefOutcomes)
  \/ AggsReturns(FewAggOutcomes)
  \/ NextRequest

Spec == Init /\ [][Next]_vars

\* the handler, over every shape of upstream answer
UpstreamHeaders == {NoHeader, HeaderAB}
UpstreamTickers == {Param(<<"a", "B">>)}
UpstreamDurations == {NoParam, Param(KwWeek)}
UpstreamSizes == {NoParam}
UpstreamTimes == {20000}

NextUpstream ==
  \/ Receive(UpstreamHeaders, UpstreamTickers, UpstreamDurations, UpstreamSizes,
             UpstreamTimes)
  \/ RefReturns(RefOutcomes)
  \/ AggsReturns(AggOutcomes)
  \/ NextRequest

SpecUpstream == Init /\ [][NextUpstream]_vars

\* the authentication check, over every Authorization header up to MaxTok
AuthEnvs ==
  {Env(k, <<"a">>, p, d) : k \in {Unset, EnvStr(<<"k">>)},
                           p \in {Unset, EnvStr(<<>>), EnvStr(<<"b">>)},
                           d \in BOOLEAN}
InitAuth == env \in AuthEnvs /\ Idle

\* the rest of the request and the upstream answers are kept few
AuthTickers == {NoParam, Param(<<"a", "B">>)}
AuthDurations == {Param(KwDay)}
AuthSizes == {NoParam, Param(<<"5", "0", "x", "4", "8", "0">>)}
AuthTimes == {20000}
AuthRefOutcomes == {RefException}
AuthAggOutcomes ==
  {AggHttp(403, AggNoBody),
   AggHttp(200, AggBody("obj", "OK", FALSE, TRUE, 1, "list", BarsOf(<<1>>)))}

NextAuth ==
  \/ Receive(AllHeaders, AuthTickers, AuthDurations, AuthSizes, AuthTimes)
  \/ RefReturns(AuthRefOutcomes)
  \/ AggsReturns(AuthAggOutcomes)
  \/ NextRequest

SpecAuth == InitAuth /\ [][NextAuth]_vars

\* the renderer alone, over every series of up to MaxBars closes
\* small closes, one below zero, and closes whose range is small against
\* the price
RenderPrices == (-1..MaxPrice) \cup {100, 101, 110}
ShortSeries == {BarsOf(cl) : cl \in SeqsUpTo(RenderPrices, MaxBars) \ {<<>>}}
\* and longer series, flat or rising, of up to MaxTickBars closes
LongSeries ==
  {BarsOf([i \in 1..n |-> 100]) : n \in (MaxBars + 1)..MaxTickBars}
    \cup {BarsOf([i \in 1..n |-> i]) : n \in (MaxBars + 1)..MaxTickBars}
RenderSeries == ShortSeries \cup LongSeries

InitRender ==
  /\ env = Env(EnvStr(<<"k">>), <<"a">>, EnvStr(<<"b">>), TRUE)
  /\ pc = "render"
  /\ req = NoRequest /\ now = 0
  /\ ticker = <<"A", "B">> /\ size = parse_size(DefaultSize) /\ window = NoWindow
  /\ company_name = NameStr(<<"N">>)
  /\ refOut = RefException /\ aggsOut = AggException /\ aggsReq = NoUrl
  /\ refCalls = 0 /\ aggsCalls = 0
  /\ stock_data \in {Returned(b) : b \in RenderSeries}
  /\ chart = NoChart
  /\ resp = NoResponse

\* create_spark_graph_image is applied to the series
Render ==
  /\ pc = "render"
  /\ chart' = create_spark_graph_image(stock_data.bars, ticker, company_name, size)
  /\ pc' = "rendered"
  /\ UNCHANGED <<env, req, now, ticker, size, window, company_name, refOut, aggsOut,
                 aggsReq, refCalls, aggsCalls, stock_data, resp>>

NextRender == Render

SpecRender == InitRender /\ [][NextRender]_vars

\* ------------------------------------------------------------------- claims
\* the checks of the handler, each read off the request and the configuration
AuthOK == verify_basic_auth(env, req.auth)
ConfigOK == Truthy(env.apiKey) /\ Truthy(env.password)
ReqTicker == Upper(ArgGet(req.ticker, <<>>))
ReqDuration == Lower(ArgGet(req.duration, KwDay))
ReqSize == parse_size(ArgGet(req.size, DefaultSize))
TickerOK == ReqTicker # <<>>
SizeInBounds ==
  /\ ReqSize.ok
  /\ 100 <= ReqSize.width /\ ReqSize.width <= 2000
  /\ 100 <= ReqSize.height /\ ReqSize.height <= 2000
DurationOK == ReqDuration \in {KwHour, KwDay, KwWeek, KwMonth}
Handling == pc \in {"ref", "aggs", "done"}
NoUpstreamCall == refCalls = 0 /\ aggsCalls = 0

Unauthorized401 ==
  JsonResponse(401, "Unauthorized", <<>>, {"WWW-Authenticate: Basic realm=\"Login Required\""})

\* Valid base64 as RFC 4648 reads it: only alphabet characters, in whole
\* quads, with padding only at the end; then decoded as the program decodes
\* (on such input both decoders give the same bytes).
b64decode_strict(s) ==
  IF \E i \in DOMAIN s : s[i] # "=" /\ ~InTable(B64Alphabet, s[i]) THEN DecodeError
  ELSE IF Len(s) % 4 # 0 THEN DecodeError
  ELSE IF \E i \in DOMAIN s : s[i] = "=" /\ i < Len(s) - 1 THEN DecodeError
  ELSE IF Len(s) >= 2 /\ s[Len(s) - 1] = "=" /\ s[Len(s)] # "=" THEN DecodeError
  ELSE a2b_base64(s, 0, 0, 0, <<>>, TRUE)

\* The header fails authentication as the claim lists it: absent, not starting
\* with "Basic ", not valid base64 (RFC 4648: alphabet characters in whole
\* quads, padding at the end only) or not UTF-8, no colon, or another pair
\* than the configured one.
ClaimedAuthFailure(e, h) ==
  \/ ~h.present
  \/ ~StartsWith(h.v, BasicPrefix)
  \/ LET dec == b64decode_strict(SubSeq(h.v, 7, Len(h.v)))
         txt == IF dec.ok THEN utf8_decode(dec.bytes, <<>>) ELSE Utf8Error
         k == IF txt.ok THEN FirstColon(txt.cps) ELSE 0
     IN \/ ~dec.ok
        \/ ~txt.ok
        \/ k = 0
        \/ SubSeq(txt.cps, 1, k - 1) # CodePoints(e.username)
        \/ ~e.password.set
        \/ SubSeq(txt.cps, k + 1, Len(txt.cps)) # CodePoints(e.password.v)

\* C1: every request whose Authorization header is absent, not "Basic ...",
\* not valid base64/UTF-8, without a colon, or carrying another pair than the
\* configured one is answered 401 {error: 'Unauthorized'} with the
\* WWW-Authenticate challenge, whatever its parameters, and no upstream call
\* is made.
C1_UnauthorizedForEveryBadHeader ==
  (Handling /\ ClaimedAuthFailure(env, req.auth))
    => (pc = "done" /\ resp = Unauthorized401 /\ NoUpstreamCall)

\* the header carries user:password in canonical form, for the configured user
PresentsUser(e, h) ==
  /\ h.present /\ StartsWith(h.v, BasicPrefix)
  /\ LET dec == b64decode_strict(SubSeq(h.v, 7, Len(h.v)))
         txt == IF dec.ok THEN utf8_decode(dec.bytes, <<>>) ELSE Utf8Error
         k == IF txt.ok THEN FirstColon(txt.cps) ELSE 0
     IN k # 0 /\ SubSeq(txt.cps, 1, k - 1) = CodePoints(e.username)

\* C2: when the API key or the basic-auth password is not set, the response is
\* 500 {error: '<name> not configured'} naming a missing setting.  Read in the
\* claim's favour: for a missing key, of the requests that authenticate; for a
\* missing password, of the requests that present the configured user.
C2_MisconfiguredIs500 ==
  /\ (Handling /\ ~env.apiKey.set /\ AuthOK)
       => (pc = "done" /\ resp = JsonResponse(500, "POLYGON_API_KEY not configured", <<>>, {}))
  /\ (Handling /\ ~env.password.set /\ PresentsUser(env, req.auth))
       => /\ pc = "done" /\ resp.status = 500
          /\ \/ resp.error = "BASIC_AUTH_PASSWORD not configured"
             \/ resp.error = "POLYGON_API_KEY not configured" /\ ~env.apiKey.set

\* the aggregates endpoint answered 200 with a consistent payload offering
\* price data: status OK, a non-empty results array, resultsCount its length
PriceDataAvailable ==
  /\ aggsOut.kind = "http" /\ aggsOut.status = 200 /\ aggsOut.body.t = "obj"
  /\ aggsOut.body.status = "OK"
  /\ aggsOut.body.results.t = "list" /\ aggsOut.body.results.bars # <<>>
  /\ aggsOut.body.resultsCount.present
  /\ aggsOut.body.resultsCount.v = Len(aggsOut.body.results.bars)

\* C3: an authenticated, configured request with a ticker, one of the four
\* durations and a size in bounds, whose aggregates call returns a non-empty
\* ascending list of bars, is answered 200 image/png with Cache-Control
\* 'public, max-age=300', never 4xx/5xx.
C3_SuccessWheneverDataAvailable ==
  (pc = "done" /\ AuthOK /\ ConfigOK /\ TickerOK /\ SizeInBounds /\ DurationOK
     /\ PriceDataAvailable)
    => /\ resp.status = 200 /\ resp.ctype = "image/png"
       /\ "Cache-Control: public, max-age=300" \in resp.headers

\* a 200 aggregates answer whose payload is an object with results absent or an
\* array, and a resultsCount that, when present, is the array's length
ConsistentPayload ==
  /\ aggsOut.kind = "http" /\ aggsOut.status = 200 /\ aggsOut.body.t = "obj"
  /\ aggsOut.body.results.t \in {"absent", "list"}
  /\ aggsOut.body.resultsCount.present
       => aggsOut.body.resultsCount.v = Len(aggsOut.body.results.bars)

\* C4: after a 200 aggregates answer fetch_stock_data returns the results list
\* exactly when the status is not 'ERROR' and the results array is non-empty;
\* status 'ERROR' raises a domain error with the upstream message, status 'OK'
\* with zero results one naming the ticker and 'no recent trading activity';
\* every such domain error becomes HTTP 400.
C4_ResultsReturnedIffNonEmpty ==
  (pc = "done" /\ ConsistentPayload) =>
    LET body == aggsOut.body
        nonEmpty == body.results.bars # <<>>
    IN /\ (stock_data.kind = "ok") <=> (body.status # "ERROR" /\ nonEmpty)
       /\ stock_data.kind = "ok" => stock_data.bars = body.results.bars
       /\ body.status = "ERROR"
            => /\ stock_data.kind = "ValueError" /\ stock_data.msg = "Polygon API error: "
               /\ resp.status = 400
       /\ (body.status = "OK" /\ ~nonEmpty)
            => /\ stock_data.kind = "ValueError"
               /\ stock_data.msg = "No data available: no recent trading activity"
               /\ stock_data.arg = ticker
               /\ resp.status = 400
       /\ stock_data.kind = "ValueError" => resp.status = 400

\* C5: every non-success status of the aggregates endpoint raises a transfer
\* error carrying the status, mapped to 403 'Invalid Polygon.io API key', 404
\* 'Ticker not found', or 500; the payload is never parsed or rendered.
C5_NonSuccessIsTransferError ==
  (pc = "done" /\ aggsOut.kind = "http" /\ ~(aggsOut.status >= 200 /\ aggsOut.status < 300))
    => /\ stock_data.kind = "HTTPError" /\ stock_data.status = aggsOut.status
       /\ chart = NoChart
       /\ resp = IF aggsOut.status = 403
                   THEN JsonResponse(403, "Invalid Polygon.io API key", <<>>, {})
                 ELSE IF aggsOut.status = 404
                   THEN JsonResponse(404, "Ticker not found", <<>>, {})
                 ELSE JsonResponse(500, "Error fetching stock data", <<>>, {})

\* the reference answer carries a display name: 200, an object whose results
\* object has a string name
OffersName(out) ==
  /\ out.kind = "http" /\ out.status = 200 /\ out.body.t = "obj"
  /\ out.body.results.t = "obj" /\ out.body.results.name.t = "str"

\* C6: whatever the reference call does (exception, non-200, non-JSON, any
\* payload shape, missing or null name), fetch_company_name returns the
\* upstream display name or the ticker, the ticker on any failure, and the
\* title's second component is that string.
C6_NameIsDisplayNameOrTicker ==
  (pc \in {"aggs", "done"} /\ refCalls = 1) =>
    /\ company_name.t = "str"
    /\ \/ company_name.v = ticker
       \/ OffersName(refOut) /\ company_name.v = refOut.body.results.name.v
    /\ ~OffersName(refOut) => company_name.v = ticker
    /\ chart.kind = "ok" => chart.image.title = ticker \o <<" ", "-", " ">> \o company_name.v

\* the request passed authentication, configuration, ticker and size checks
PastSizeCheck == Handling /\ AuthOK /\ ConfigOK /\ TickerOK /\ SizeInBounds

\* C7: get_duration_params maps hour to (minute, 1) over 1 hour, day to
\* (minute, 5) over 1 day, week to (hour, 1) over 7 days and month to (day, 1)
\* over 30 days, with start = end - span and end the time of the request; any
\* other keyword (after lower-casing) is answered 400 'Invalid duration' with
\* no upstream call made.
C7_DurationTable ==
  PastSizeCheck =>
    /\ ReqDuration = KwHour
         => /\ window.timespan = "minute" /\ window.multiplier = 1
            /\ window.start_date = window.end_date - 1
    /\ ReqDuration = KwDay
         => /\ window.timespan = "minute" /\ window.multiplier = 5
            /\ window.start_date = window.end_date - 24
    /\ ReqDuration = KwWeek
         => /\ window.timespan = "hour" /\ window.multiplier = 1
            /\ window.start_date = window.end_date - 7 * 24
    /\ ReqDuration = KwMonth
         => /\ window.timespan = "day" /\ window.multiplier = 1
            /\ window.start_date = window.end_date - 30 * 24
    /\ DurationOK => (window.ok /\ window.end_date = now /\ refCalls = 1)
    /\ ~DurationOK
         => /\ pc = "done"
            /\ resp = JsonResponse(400, "Invalid duration: ", ReqDuration, {})
            /\ NoUpstreamCall

\* C7 witness: duration=DAY (upper case) resolved to 5-minute bars over one
\* day, and the aggregates request issued with them
C7_Witness ==
  /\ pc = "aggs" /\ req.duration = Param(<<"D", "A", "Y">>)
  /\ window.timespan = "minute" /\ window.multiplier = 5
  /\ window.start_date = now - 24
  /\ aggsReq.multiplier = 5 /\ aggsReq.timespan = "minute"

SizeFormatError ==
  JsonResponse(400, "Invalid size format. Use WIDTHxHEIGHT (e.g., 480x480)", <<>>, {})
SizeLimitError == JsonResponse(400, "Size must be between 100x100 and 2000x2000", <<>>, {})

\* C8: an authenticated, configured request with a ticker passes size
\* validation exactly when size is WIDTHxHEIGHT with two integers both in
\* [100, 2000]; a size that does not parse as exactly two integers is answered
\* 400 'Invalid size format', a parsed one with a component below 100 or above
\* 2000 is answered 400 'Size must be between 100x100 and 2000x2000'; 480x480
\* passes, 50x480 and 3000x480 are answered 400.
C8_SizeValidation ==
  (Handling /\ AuthOK /\ ConfigOK /\ TickerOK) =>
    LET rejected == pc = "done" /\ resp \in {SizeFormatError, SizeLimitError}
        raw == ArgGet(req.size, DefaultSize)
    IN /\ ~rejected <=> SizeInBounds
       /\ ~ReqSize.ok => (pc = "done" /\ resp = SizeFormatError)
       /\ (ReqSize.ok /\ ~SizeInBounds) => (pc = "done" /\ resp = SizeLimitError)
       /\ raw = DefaultSize => (~rejected /\ ReqSize.width = 480 /\ ReqSize.height = 480)
       /\ raw \in {<<"5", "0", "x", "4", "8", "0">>, <<"3", "0", "0", "0", "x", "4", "8", "0">>}
            => (rejected /\ resp.status = 400)
       /\ raw \in {<<"4", "8", "0">>, <<"4", "8", "0", "X", "4", "8", "0">>,
                   <<"4", "8", "0", "x", "4", "8", "0", "x", "4", "8", "0">>}
            => resp = SizeFormatError
       /\ (~rejected /\ pc # "done") => (size.width = ReqSize.width /\ size.height = ReqSize.height)

\* C8 witness: size 100x2000, on the limits, passed validation and the handler
\* went on to its upstream calls
C8_Witness ==
  /\ pc = "ref" /\ req.size = Param(<<"1", "0", "0", "x", "2", "0", "0", "0">>)
  /\ size.width = 100 /\ size.height = 2000

\* C9: in one request each endpoint is called at most once, with no retry;
\* neither is called when the authentication, configuration, ticker, size or
\* duration check fails, and the response is that of the first failing stage
\* in the order auth, config, ticker, size, duration, upstream data, render.
C9_OneCallEachInStageOrder ==
  /\ refCalls <= 1 /\ aggsCalls <= 1 /\ aggsCalls <= refCalls
  /\ pc = "ref" => (refCalls = 1 /\ aggsCalls = 0)
  /\ pc = "aggs" => (refCalls = 1 /\ aggsCalls = 1)
  /\ pc \in {"ref", "aggs"}
       => (AuthOK /\ ConfigOK /\ TickerOK /\ SizeInBounds /\ DurationOK)
  /\ pc = "done" =>
       IF ~AuthOK THEN resp = Unauthorized401 /\ NoUpstreamCall
       ELSE IF ~ConfigOK
         THEN /\ resp.status = 500 /\ NoUpstreamCall
              /\ resp.error \in {"POLYGON_API_KEY not configured",
                                 "BASIC_AUTH_PASSWORD not configured"}
       ELSE IF ~TickerOK
         THEN /\ resp = JsonResponse(400, "Missing required parameter: ticker", <<>>, {})
              /\ NoUpstreamCall
       ELSE IF ~SizeInBounds
         THEN resp \in {SizeFormatError, SizeLimitError} /\ NoUpstreamCall
       ELSE IF ~DurationOK
         THEN resp.status = 400 /\ resp.error = "Invalid duration: " /\ NoUpstreamCall
       ELSE /\ refCalls = 1 /\ aggsCalls = 1
            /\ stock_data.kind # "none"
            /\ IF stock_data.kind # "ok"
                 THEN /\ chart = NoChart
                      /\ resp.status \in {400, 403, 404, 500}
                      /\ resp.error \notin {"No price data available", ""}
               ELSE IF chart.kind # "ok"
                 THEN /\ resp.status \in {400, 500}
                      /\ resp.arg = <<chart.msg>> \/ resp.error = chart.msg
               ELSE resp = PngResponse(chart.image)

\* C9 witness: a request that failed at the upstream-data stage after exactly
\* one call to each endpoint, the reference call having failed too
C9_Witness ==
  /\ pc = "done" /\ refCalls = 1 /\ aggsCalls = 1
  /\ refOut.kind = "exception" /\ aggsOut.kind = "http" /\ aggsOut.status = 500
  /\ resp = JsonResponse(500, "Error fetching stock data", <<>>, {})

\* the renderer has set the axis limits of a non-empty series
Rendered == pc = "rendered" /\ chart.kind # "none"
RenderedCloses == Closes(stock_data.bars)

\* the claimed padding, times 1000
ClaimedPadding(values) ==
  LET lo == SeqMin(values)
      hi == SeqMax(values)
  IN IF hi > lo THEN Max(50 * (hi - lo), 5 * lo) ELSE 10 * lo

ClaimedBounds(values) ==
  /\ chart.image.y_min = 1000 * SeqMin(values) - ClaimedPadding(values)
  /\ chart.image.y_max = 1000 * SeqMax(values) + ClaimedPadding(values)
  /\ chart.image.y_min < 1000 * SeqMin(values)
  /\ 1000 * SeqMax(values) < chart.image.y_max

\* C10, as stated: for every non-empty series of closes the Y-axis bounds are
\* [min - padding, max + padding], padding = max(0.05*(max-min), 0.005*min)
\* when max > min and 0.01*min when max = min, and y_min < min <= max < y_max.
C10_BandForEverySeries == Rendered => ClaimedBounds(RenderedCloses)

\* C10, amended: the same for every non-empty series except the flat ones
\* at a close of zero or less, that is whenever max > min or min > 0;
\* [100,100,100] gives [99, 101], [100,110] gives [99.5, 110.5] and [1,0]
\* gives [-0.05, 1.05].
C10_BandUnlessFlatAtOrBelowZero ==
  (Rendered /\ (SeqMax(RenderedCloses) > SeqMin(RenderedCloses)
                  \/ SeqMin(RenderedCloses) > 0)) =>
    /\ ClaimedBounds(RenderedCloses)
    /\ RenderedCloses = <<1, 0>>
         => (chart.image.y_min = -50 /\ chart.image.y_max = 1050)
    /\ RenderedCloses = <<-1, 0>>
         => (chart.image.y_min = -1050 /\ chart.image.y_max = 50)
    /\ RenderedCloses = <<100, 100, 100>>
         => (chart.image.y_min = 99000 /\ chart.image.y_max = 101000)
    /\ RenderedCloses = <<100, 110>>
         => (chart.image.y_min = 99500 /\ chart.image.y_max = 110500)
    /\ RenderedCloses = <<100, 101>>
         => (chart.image.y_min = 99500 /\ chart.image.y_max = 101500)

\* C10 witness: the flat series [100,100,100] drawn between 99 and 101
C10_Witness ==
  /\ Rendered /\ RenderedCloses = <<100, 100, 100>>
  /\ chart.image.y_min = 99000 /\ chart.image.y_max = 101000

\* the tick indices of the rendered chart and the length of its bar list
RenderedTicks == chart.image.ticks
RenderedLen == Len(stock_data.bars)

\* C11: for a bar list of length n >= 1 the X-axis tick indices number
\* exactly min(6, n), are strictly increasing, all lie in [0, n-1] and
\* include index 0 and index n-1; when n <= 6 every bar index is a tick.
\* Eight bars give the ticks 0, 1, 2, 4, 5, 7.
C11_TickIndices ==
  (Rendered /\ RenderedLen >= 1) =>
    /\ Len(RenderedTicks) = Min(6, RenderedLen)
    /\ \A i, j \in DOMAIN RenderedTicks : i < j => RenderedTicks[i] < RenderedTicks[j]
    /\ \A i \in DOMAIN RenderedTicks : RenderedTicks[i] \in 0..(RenderedLen - 1)
    /\ RenderedTicks[1] = 0
    /\ RenderedTicks[Len(RenderedTicks)] = RenderedLen - 1
    /\ RenderedLen <= 6 => RenderedTicks = [i \in 1..RenderedLen |-> i - 1]
    /\ RenderedLen = 8 => RenderedTicks = <<0, 1, 2, 4, 5, 7>>

\* C11 witness: twelve bars drawn with the six ticks 0, 2, 4, 6, 8, 11
C11_Witness ==
  /\ Rendered /\ RenderedLen = 12
  /\ RenderedTicks = <<0, 2, 4, 6, 8, 11>>
====
